---- MODULE Spec2Model ----
(***************************************************************************)
(* Model of the hbf-api generic CRUD route factory (crudRoutes) and of the *)
(* client-side REST adapter (IBMQueryBuilder) of hbf-Loanflow-CRM.         *)
(*                                                                         *)
(* The specifications of the module:                                      *)
(*   Spec       - one router produced by crudRoutes over one table; every  *)
(*                handler is split at its awaits, so that the statements   *)
(*                of concurrent requests interleave as they do in Node.    *)
(*   SpecList   - the SQL text and bound parameters that GET / builds.     *)
(*   SpecClient - IBMQueryBuilder: chain methods and terminal calls.       *)
(*   SpecSeeded - Spec over a table that already holds rows.               *)
(*   SpecRace   - PUT and DELETE requests racing on one stored row.        *)
(*   SpecApp    - server.js: the stack a request passes before a router.   *)
(*   SpecHeap   - the builder objects that chain methods create.           *)
(***************************************************************************)
EXTENDS Integers, Sequences, FiniteSets, TLC

(***************************************************************************)
(* Values.  JSON values and SQL values are integers; three negative        *)
(* numbers stand for the JavaScript values the handlers test for.          *)
(***************************************************************************)
Absent == -1    \* key not in the object (undefined)
Null   == -2    \* JSON null / SQL NULL
Empty  == -3    \* the empty string ''

\* bounds of the model
MaxId       == 2    \* row identifiers are 1..MaxId
MaxClock    == 2    \* the server clock runs from 1 to MaxClock
MaxInFlight == 2    \* requests being handled at the same time
MaxWrites   == 2    \* POST, PUT, PATCH and DELETE requests received in one behaviour

Ids    == 1..MaxId
Clock  == 1..MaxClock
Slots  == 1..MaxInFlight

NoId        == 0    \* a body without a usable id: absent, null, '' or 0 (all falsy)
NotUuid     == -4   \* a path segment that is no uuid, as in GET /leads/abc

\* what :id can be in a request
PathIds == Ids \cup {NotUuid}
CallerStamp == 0    \* a created_at / updated_at value sent by the caller (before the clock starts)

Columns == {"id", "created_at", "updated_at", "user_id", "contact_entity_id"}

(***************************************************************************)
(* Request bodies: JSON objects over the table's columns.                  *)
(***************************************************************************)
Bodies ==
  [ id                : {Absent} \cup Ids,
    created_at        : {Absent, CallerStamp},
    updated_at        : {Absent, CallerStamp},
    user_id           : {Absent, 5},
    contact_entity_id : {Absent, Null, Empty, 5} ]

(***************************************************************************)
(* Routers: the route files that call crudRoutes.                          *)
(***************************************************************************)
Routers ==
  { [ variant |-> "setup", table |-> "leads",
      requiredFields |-> <<"contact_entity_id", "user_id">>, allowDelete |-> TRUE ],
    [ variant |-> "setup", table |-> "clients",
      requiredFields |-> <<"user_id", "contact_entity_id">>, allowDelete |-> FALSE ],
    [ variant |-> "docs", table |-> "clients",
      requiredFields |-> <<"user_id">>, allowDelete |-> FALSE ],
    [ variant |-> "docs", table |-> "tasks",
      requiredFields |-> <<"user_id">>, allowDelete |-> TRUE ] }

\* the columns of Columns a table has: tasks has no contact_entity_id
TableCols(t) == IF t = "tasks" THEN Columns \ {"contact_entity_id"} ELSE Columns

\* the columns of a table that reference another table's rows
ForeignKeys(t) == IF t = "clients" THEN {"contact_entity_id"} ELSE {}

\* the tables whose rows other tables' records reference
ReferencedTables == {"leads", "clients"}

\* columns declared NOT NULL besides id and the two timestamps
NotNullCols(t) == IF t = "leads" THEN {"contact_entity_id"} ELSE {"user_id"}

VARIABLES
  router,   \* the configuration crudRoutes was called with
  table,    \* the rows of the table, by id
  now,      \* the server clock (what new Date() returns)
  reqs,     \* the requests in flight, by slot
  served,   \* the number of writing requests received so far
  resp,     \* the response sent last
  created   \* by id: the row the last 201 returned, until the row is written again;
            \* clean tells that the 201 took it from the read-back

serverVars == <<router, table, now, reqs, served, resp, created>>

VARIABLES
  lcfg,     \* GET /: the configuration of the router that handles the request
  lstored,  \* GET /: how many rows of the table satisfy the request's conditions
  lreq,     \* GET /: req.query
  lpc,      \* GET /: where the handler is
  lsql,     \* GET /: the statement text the handler built
  lparams,  \* GET /: the values bound to the statement
  lresp     \* GET /: the response

listVars == <<lcfg, lstored, lreq, lpc, lsql, lparams, lresp>>

VARIABLES
  state,    \* client: this.state of the builder the chain has reached
  terminal, \* client: the terminal method that was called on it
  cpc,      \* client: where execute() is
  session,  \* client: what the browser's session storage holds
  http,     \* client: the requests passed to fetch, in order
  result,   \* client: how the promise of the terminal call settled
  calls,    \* client: the terminal calls made on the builder so far
  reply     \* client: what the last fetch settled with

clientVars == <<state, terminal, cpc, session, http, result, calls, reply>>

VARIABLES
  app,      \* server: which server.js built the application
  secret,   \* server: process.env.CRM_API_KEY
  hreq,     \* server: the request that is passing through the application's stack
  layer,    \* server: the position in the stack it has reached (0: no request inside)
  entered,  \* server: the layers that ran for it
  queries,  \* server: the database queries that were run for it
  hresp     \* server: the response to it

appVars == <<app, secret, hreq, layer, entered, queries, hresp>>

VARIABLES
  builders, \* client: the IBMQueryBuilder objects made so far, each one's this.state
  arrays    \* client: the filter arrays those states refer to

heapVars == <<builders, arrays>>

vars == <<serverVars, listVars, clientVars, appVars, heapVars>>

\* what the handlers of /:id and POST / leave alone, what GET / leaves alone, and what
\* the client leaves alone
notServer == <<listVars, clientVars, appVars, heapVars>>
notList   == <<serverVars, clientVars, appVars, heapVars>>
notClient == <<serverVars, listVars, appVars, heapVars>>
notApp    == <<serverVars, listVars, clientVars, heapVars>>
notHeap   == <<serverVars, listVars, clientVars, appVars>>

NoBody == [ id |-> Absent, created_at |-> Absent, updated_at |-> Absent,
            user_id |-> Absent, contact_entity_id |-> Absent ]
NoRow  == NoBody

\* a free slot.  rec is the record (POST) or the update object (PUT, PATCH) the handler
\* built, stamp the instant it read from the clock; raced records that another request
\* wrote the row between this request's write and its read-back, sent that the body of
\* a PUT or PATCH carried an id or a created_at.
Idle == [ pc |-> "idle", method |-> "-", id |-> NoId, rec |-> NoBody, stamp |-> 0,
          raced |-> FALSE, sent |-> FALSE ]

\* a response: the request it answers, the HTTP status, the row in its body (NoRow when
\* the body holds none), the error message and the field the message names; about is what
\* the body of a POST that failed validation carried in the table's own columns
\* and ack the id an acknowledgment of a DELETE names (NoId when it names none)
NoResp == [ method |-> "-", id |-> NoId, status |-> 0, row |-> NoRow, msg |-> "-",
            field |-> "-", about |-> NoBody, ack |-> NoId ]

NoCreated == [ row |-> NoRow, clean |-> FALSE ]

(***************************************************************************)
(* The database: one table with a primary key on id.                       *)
(***************************************************************************)
Min(S) == CHOOSE x \in S : \A y \in S : x <= y

\* the row an INSERT stores for a record: a column that is not listed gets NULL
RowOf(rec) == [c \in Columns |-> IF rec[c] = Absent THEN Null ELSE rec[c]]

\* '' is no valid input for a uuid column
BadUuid(rec) == \E c \in {"user_id", "contact_entity_id"} : rec[c] = Empty

\* an INSERT into a table without a primary key on id: the new row replaces the old one
InsertOverwrites(t, tbl, rec, dangling) ==
  [err |-> "ok",
   tbl |-> [i \in DOMAIN tbl \cup {rec.id} |-> IF i = rec.id THEN RowOf(rec) ELSE tbl[i]]]

\* INSERT INTO t (cols) VALUES (vals): the error code and the table afterwards; dangling
\* tells that the rows the record references do not exist
InsertResult(t, tbl, rec, dangling) ==
  IF \E c \in Columns \ TableCols(t) : rec[c] # Absent THEN [err |-> "42703", tbl |-> tbl]
  ELSE IF BadUuid(rec) THEN [err |-> "22P02", tbl |-> tbl]
  ELSE IF \E c \in NotNullCols(t) : RowOf(rec)[c] = Null THEN [err |-> "23502", tbl |-> tbl]
  ELSE IF rec.id \in DOMAIN tbl THEN [err |-> "23505", tbl |-> tbl]
  ELSE IF dangling /\ \E c \in ForeignKeys(t) : RowOf(rec)[c] # Null
    THEN [err |-> "23503", tbl |-> tbl]
  ELSE [err |-> "ok",
        tbl |-> [i \in DOMAIN tbl \cup {rec.id} |-> IF i = rec.id THEN RowOf(rec) ELSE tbl[i]]]

\* the columns of an update object
Keys(u) == {c \in Columns : u[c] # Absent}

\* UPDATE t SET k = v, ... WHERE id = id: the error code and the table afterwards
UpdateResult(t, tbl, u, id, dangling) ==
  IF \E c \in Columns \ TableCols(t) : u[c] # Absent THEN [err |-> "42703", tbl |-> tbl]
  ELSE IF BadUuid(u) THEN [err |-> "22P02", tbl |-> tbl]
  ELSE IF id \notin DOMAIN tbl THEN [err |-> "ok", tbl |-> tbl]
  ELSE LET new == [c \in Columns |-> IF u[c] # Absent THEN u[c] ELSE tbl[id][c]] IN
    IF \E c \in NotNullCols(t) \cup {"id", "created_at", "updated_at"} : new[c] = Null
      THEN [err |-> "23502", tbl |-> tbl]
    ELSE IF new.id # id /\ new.id \in DOMAIN tbl THEN [err |-> "23505", tbl |-> tbl]
    ELSE IF dangling /\ \E c \in ForeignKeys(t) : u[c] \notin {Absent, Null}
      THEN [err |-> "23503", tbl |-> tbl]
    ELSE [err |-> "ok",
          tbl |-> [i \in (DOMAIN tbl \ {id}) \cup {new.id} |->
                     IF i = new.id THEN new ELSE tbl[i]]]

\* DELETE FROM t WHERE id = id, when no record references the row
DeleteResult(tbl, id) == [i \in DOMAIN tbl \ {id} |-> tbl[i]]

\* DELETE FROM t WHERE id = id: the error code and the table afterwards; referenced tells
\* that records of another table reference the row
DeleteOutcome(t, tbl, id, referenced) ==
  IF referenced /\ t \in ReferencedTables /\ id \in DOMAIN tbl
    THEN [err |-> "23503", tbl |-> tbl]
  ELSE [err |-> "ok", tbl |-> DeleteResult(tbl, id)]

\* a SELECT by id that always comes back with a row, as a handler without its
\* rows.length test would see it
SelectAnyway(tbl, id) == IF id \in DOMAIN tbl THEN tbl[id] ELSE [NoRow EXCEPT !.id = id]

\* SELECT * FROM t WHERE id = id: the row, or NoRow when rows.length is 0
SelectById(tbl, id) == IF id \in DOMAIN tbl THEN tbl[id] ELSE NoRow

\* WHERE id = $1 with a parameter that is no uuid: the statement fails (22P02)
QueryFails(id) == id = NotUuid

(***************************************************************************)
(* crudRoutes: the handlers.                                               *)
(***************************************************************************)
\* the required-fields test without its third disjunct: '' passes
MissingButEmpty(v) == v = Absent \/ v = Null

\* req.body[f] === undefined || req.body[f] === null || req.body[f] === ''
Missing(v) == v = Absent \/ v = Null \/ v = Empty

\* the field the required-fields loop stops at, "-" when it runs to its end
FirstMissing(required, body) ==
  LET bad == {i \in 1..Len(required) : Missing(body[required[i]])} IN
  IF bad = {} THEN "-" ELSE required[Min(bad)]

\* { id, created_at: now, updated_at: now, ...req.body }: the caller's timestamps win
StampUnlessGiven(body, id, t) ==
  [body EXCEPT !.id = id,
               !.created_at = IF body.created_at = Absent THEN t ELSE body.created_at,
               !.updated_at = IF body.updated_at = Absent THEN t ELSE body.updated_at]

\* { ...req.body, id, created_at: now, updated_at: now }
StampRecord(body, id, t) == [body EXCEPT !.id = id, !.created_at = t, !.updated_at = t]

\* the update object with the two delete statements left out
StripNothing(u) == u

\* delete updates.id; delete updates.created_at
StripImmutable(u) == [u EXCEPT !.id = Absent, !.created_at = Absent]

\* { ...req.body, updated_at: new Date().toISOString() } without id and created_at
Updates(body, t) == StripImmutable([body EXCEPT !.updated_at = t])

\* the routes of a factory that registers DELETE /:id without looking at allowDelete
RegisteredUnguarded(r, method) ==
  \/ method \in {"GET", "POST", "PUT", "DELETE"}
  \/ method = "PATCH" /\ r.variant = "setup"

\* the routes crudRoutes registers on the router
Registered(r, method) ==
  \/ method \in {"GET", "POST", "PUT"}
  \/ method = "PATCH" /\ r.variant = "setup"
  \/ method = "DELETE" /\ r.allowDelete

\* ids that uuidv4() may return: none that is stored or about to be stored
FreshIds == Ids \ (DOMAIN table \cup {reqs[s].rec.id : s \in Slots})

\* a request is received into the first free slot
Free(s) ==
  /\ reqs[s].pc = "idle"
  /\ \A t \in Slots : t < s => reqs[t].pc # "idle"

\* a request that may write is received
Receive(s) ==
  /\ Free(s)
  /\ served < MaxWrites
  /\ served' = served + 1

\* the slots a write of row id leaves as they are, except that a request waiting to read
\* that row back has now been raced
Raced(rs, s, id) ==
  [t \in Slots |->
     IF t # s /\ rs[t].pc = "reread" /\ (IF rs[t].method = "POST" THEN rs[t].rec.id ELSE rs[t].id) = id
       THEN [rs[t] EXCEPT !.raced = TRUE] ELSE rs[t]]

Answer(method, id, st, row, msg, field) ==
  [ method |-> method, id |-> id, status |-> st, row |-> row, msg |-> msg, field |-> field,
    about |-> NoBody, ack |-> NoId ]

\* the answer to the request in slot s
Reply(s, id, st, row, msg) == Answer(reqs[s].method, id, st, row, msg, "-")

\* a body without id and timestamps
Given(body) == [body EXCEPT !.id = Absent, !.created_at = Absent, !.updated_at = Absent]

\* whether a body tries to set id or created_at
Sent(body) == body.id # Absent \/ body.created_at # Absent

\* app.use((req, res) => res.status(404)...): no route of the router matched
CatchAll(method, id) ==
  /\ ~Registered(router, method)
  /\ resp' = Answer(method, id, 404, NoRow, "Route not found", "-")
  /\ UNCHANGED <<router, table, now, reqs, served, created>>
  /\ UNCHANGED notServer

\* GET /:id
GetById(id) ==
  /\ resp' = IF QueryFails(id)
               THEN Answer("GET", id, 500, NoRow, "Internal server error", "-")
             ELSE IF SelectById(table, id) = NoRow
               THEN Answer("GET", id, 404, NoRow, "Not found", "-")
             ELSE Answer("GET", id, 200, SelectById(table, id), "-", "-")
  /\ UNCHANGED <<router, table, now, reqs, served, created>>
  /\ UNCHANGED notServer

\* POST /: validation, id and timestamps, up to the await of the INSERT
PostStart(s, body) ==
  /\ Receive(s)
  /\ LET f == FirstMissing(router.requiredFields, body) IN
     IF f # "-"
       THEN /\ resp' = [Answer("POST", NoId, 400, NoRow, "Missing required field", f)
                          EXCEPT !.about = Given(body)]
            /\ UNCHANGED reqs
       ELSE /\ \E id \in (IF body.id = Absent THEN FreshIds ELSE {body.id}) :
                 reqs' = [reqs EXCEPT ![s] = [Idle EXCEPT !.pc = "insert", !.method = "POST",
                            !.stamp = now, !.rec = StampRecord(body, id, now)]]
            /\ UNCHANGED resp
  /\ UNCHANGED <<router, table, now, created>>
  /\ UNCHANGED notServer

\* the status a failed INSERT is answered with (the catch block of POST /)
PostErrorStatus(r, err) ==
  IF err = "23505" THEN 409
  ELSE IF err = "23503" /\ r.variant = "setup" THEN 400
  ELSE 500

\* POST /: the INSERT runs
PostInsert(s, dangling) ==
  /\ reqs[s].pc = "insert"
  /\ LET res == InsertResult(router.table, table, reqs[s].rec, dangling)
         id  == reqs[s].rec.id IN
     /\ table' = res.tbl
     /\ IF res.err = "ok"
          THEN /\ reqs' = [Raced(reqs, s, id) EXCEPT ![s].pc = "reread"]
               /\ created' = [created EXCEPT ![id] = NoCreated]
               /\ UNCHANGED resp
          ELSE /\ reqs' = [reqs EXCEPT ![s] = Idle]
               /\ resp' = Reply(s, NoId, PostErrorStatus(router, res.err), NoRow, res.err)
               /\ UNCHANGED created
  /\ UNCHANGED <<router, now, served>>
  /\ UNCHANGED notServer

\* a 201 that echoes the record the handler built
CreatedEcho(row, record) == record

\* rows[0] || record
CreatedBody(row, record) == IF row # NoRow THEN row ELSE record

\* POST /: the row is read back; res.status(201).json(rows[0] || record)
PostReread(s) ==
  /\ reqs[s].pc = "reread" /\ reqs[s].method = "POST"
  /\ LET row == SelectById(table, reqs[s].rec.id)
         out == CreatedBody(row, reqs[s].rec) IN
     /\ resp' = Reply(s, NoId, 201, out, "-")
     /\ created' = [created EXCEPT ![reqs[s].rec.id] = [row |-> out, clean |-> row # NoRow]]
  /\ reqs' = [reqs EXCEPT ![s] = Idle]
  /\ UNCHANGED <<router, table, now, served>>
  /\ UNCHANGED notServer

\* a handler that builds its UPDATE without looking for the row first
ArrivalUnchecked(tbl, t, id, body) ==
  [status |-> 0, msg |-> "-", rec |-> Updates(body, t)]

\* router.put('/:id') up to the await of the UPDATE: the status and message it answers
\* with, or status 0 and the update object it goes on with
PutArrival(tbl, t, id, body) ==
  IF QueryFails(id)
    THEN [status |-> 500, msg |-> "Internal server error", rec |-> NoBody]
  ELSE IF SelectById(tbl, id) = NoRow
    THEN [status |-> 404, msg |-> "Not found", rec |-> NoBody]
  ELSE IF Keys(Updates(body, t)) = {}
    THEN [status |-> 400, msg |-> "No fields to update", rec |-> NoBody]
  ELSE [status |-> 0, msg |-> "-", rec |-> Updates(body, t)]

\* router.patch('/:id') up to the await of the UPDATE
PatchArrival(tbl, t, id, body) ==
  IF QueryFails(id)
    THEN [status |-> 500, msg |-> "Internal server error", rec |-> NoBody]
  ELSE IF SelectById(tbl, id) = NoRow
    THEN [status |-> 404, msg |-> "Not found", rec |-> NoBody]
  ELSE IF Keys(Updates(body, t)) = {}
    THEN [status |-> 400, msg |-> "No fields to update", rec |-> NoBody]
  ELSE [status |-> 0, msg |-> "-", rec |-> Updates(body, t)]

\* PUT /:id and PATCH /:id: the existence check and the update object
PutStart(s, method, id, body) ==
  /\ Receive(s)
  /\ method \in {"PUT", "PATCH"} /\ Registered(router, method)
  /\ LET a == IF method = "PUT" THEN PutArrival(table, now, id, body)
                                ELSE PatchArrival(table, now, id, body) IN
     IF a.status # 0
       THEN /\ resp' = Answer(method, id, a.status, NoRow, a.msg, "-")
            /\ UNCHANGED reqs
       ELSE /\ reqs' = [reqs EXCEPT ![s] = [Idle EXCEPT !.pc = "update", !.method = method,
                          !.id = id, !.stamp = now, !.rec = a.rec,
                          !.sent = Sent(body)]]
            /\ UNCHANGED resp
  /\ UNCHANGED <<router, table, now, created>>
  /\ UNCHANGED notServer

\* PUT /:id and PATCH /:id: the UPDATE runs
PutUpdate(s, dangling) ==
  /\ reqs[s].pc = "update"
  /\ LET res == UpdateResult(router.table, table, reqs[s].rec, reqs[s].id, dangling)
         id  == reqs[s].id IN
     /\ table' = res.tbl
     /\ IF res.err = "ok"
          THEN /\ reqs' = [(IF id \in DOMAIN table THEN Raced(reqs, s, id) ELSE reqs)
                             EXCEPT ![s].pc = "reread"]
               /\ created' = IF id \in DOMAIN table
                               THEN [created EXCEPT ![id] = NoCreated] ELSE created
               /\ UNCHANGED resp
          ELSE /\ reqs' = [reqs EXCEPT ![s] = Idle]
               /\ resp' = Reply(s, id, 500, NoRow, res.err)
               /\ UNCHANGED created
  /\ UNCHANGED <<router, now, served>>
  /\ UNCHANGED notServer

\* PUT /:id and PATCH /:id: the row is read back; res.json(rows[0])
PutReread(s) ==
  /\ reqs[s].pc = "reread" /\ reqs[s].method \in {"PUT", "PATCH"}
  /\ resp' = Reply(s, reqs[s].id, 200, SelectById(table, reqs[s].id), "-")
  /\ reqs' = [reqs EXCEPT ![s] = Idle]
  /\ UNCHANGED <<router, table, now, served, created>>
  /\ UNCHANGED notServer

\* DELETE /:id: the existence check
DeleteStart(s, id) ==
  /\ Receive(s)
  /\ Registered(router, "DELETE")
  /\ IF QueryFails(id)
       THEN /\ resp' = Answer("DELETE", id, 500, NoRow, "Internal server error", "-")
            /\ UNCHANGED reqs
     ELSE IF SelectById(table, id) = NoRow
       THEN /\ resp' = Answer("DELETE", id, 404, NoRow, "Not found", "-")
            /\ UNCHANGED reqs
     ELSE /\ reqs' = [reqs EXCEPT ![s] = [Idle EXCEPT !.pc = "delete", !.method = "DELETE",
                                                        !.id = id]]
            /\ UNCHANGED resp
  /\ UNCHANGED <<router, table, now, created>>
  /\ UNCHANGED notServer

\* the status a failed DELETE is answered with (the catch block of DELETE /:id)
DeleteErrorStatus(r, err) == IF err = "23503" /\ r.variant = "setup" THEN 400 ELSE 500

\* an acknowledgment that names the deleted id in every variant
AckWithId(r, id) == id

\* the id in the acknowledgment: res.json({ success: true, id }) in the setup variant,
\* { success: true, message } without an id in the other
AckId(r, id) == IF r.variant = "setup" THEN id ELSE NoId

\* DELETE /:id: the DELETE runs
DeleteRun(s, referenced) ==
  /\ reqs[s].pc = "delete"
  /\ LET id  == reqs[s].id
         res == DeleteOutcome(router.table, table, id, referenced) IN
     /\ table' = res.tbl
     /\ IF res.err = "ok"
          THEN /\ reqs' = [(IF id \in DOMAIN table THEN Raced(reqs, s, id) ELSE reqs)
                             EXCEPT ![s] = Idle]
               /\ resp' = [Reply(s, id, 200, NoRow, "success") EXCEPT !.ack = AckId(router, id)]
               /\ created' = IF id \in DOMAIN table
                               THEN [created EXCEPT ![id] = NoCreated] ELSE created
          ELSE /\ reqs' = [reqs EXCEPT ![s] = Idle]
               /\ resp' = Reply(s, id, DeleteErrorStatus(router, res.err), NoRow, res.err)
               /\ UNCHANGED created
  /\ UNCHANGED <<router, now, served>>
  /\ UNCHANGED notServer

\* time passes
Tick ==
  /\ now < MaxClock
  /\ now' = now + 1
  /\ UNCHANGED <<router, table, reqs, served, resp, created>>
  /\ UNCHANGED notServer

(***************************************************************************)
(* GET /: the list handler.  A query-string value is a text, a sequence of *)
(* characters; filter values and the search term are numbers.              *)
(***************************************************************************)
DefaultLimit == 100    \* parseInt(req.query.limit) || 100
MaxLimit     == 500    \* Math.min(..., 500)

\* req.query.limit and req.query.offset when the query string does not name them
Undefined == <<"undefined">>

\* Number.NaN
NaN == [nan |-> TRUE, val |-> 0]

Digit(c) ==
  CASE c = "0" -> 0 [] c = "1" -> 1 [] c = "2" -> 2 [] c = "3" -> 3 [] c = "4" -> 4
    [] c = "5" -> 5 [] c = "6" -> 6 [] c = "7" -> 7 [] c = "8" -> 8 [] c = "9" -> 9
    [] OTHER -> -1

\* the value of the longest prefix of digits of t, read after acc; n counts the digits
RECURSIVE LeadingDigits(_, _, _)
LeadingDigits(t, acc, n) ==
  IF t = <<>> \/ Digit(Head(t)) < 0 THEN [val |-> acc, n |-> n]
  ELSE LeadingDigits(Tail(t), 10 * acc + Digit(Head(t)), n + 1)

\* parseInt(t): an optional sign, then digits up to the first other character
ParseInt(t) ==
  LET neg  == t # <<>> /\ Head(t) = "-"
      body == IF neg THEN Tail(t) ELSE t
      d    == LeadingDigits(body, 0, 0) IN
  IF d.n = 0 THEN NaN ELSE [nan |-> FALSE, val |-> IF neg THEN 0 - d.val ELSE d.val]

\* x || d for a number x: NaN and 0 are falsy
OrDefault(x, d) == IF x.nan \/ x.val = 0 THEN d ELSE x.val

Min2(a, b) == IF a <= b THEN a ELSE b
Max2(a, b) == IF a >= b THEN a ELSE b

\* Math.min(parseInt(req.query.limit) || 100, 500)
LimitOf(q) == Min2(OrDefault(ParseInt(q.limit), DefaultLimit), MaxLimit)

\* parseInt(req.query.offset) || 0
OffsetOf(q) == OrDefault(ParseInt(q.offset), 0)

\* the routers asked to list; filterParams holds the first names of the route files' lists
ListRouters ==
  { [variant |-> "setup", table |-> "leads",   filterParams |-> <<"status", "user_id">>],
    [variant |-> "docs",  table |-> "clients", filterParams |-> <<"status", "user_id">>] }

LimitTexts ==
  { Undefined, <<"a", "b", "c">>, <<"0">>, <<"-", "5">>, <<"1", "0">>, <<"5", "0", "0">>,
    <<"5", "0", "1">>, <<"2", "0", "0", "0">>, <<"1", "0", "0", "0", "0">> }

OffsetTexts == { Undefined, <<"5">> }

\* the default order column, as a text
CreatedAt == <<"c", "r", "e", "a", "t", "e", "d", "_", "a", "t">>

\* req.query.order_by: absent, empty, two column names made of letters and underscores,
\* and two texts with other characters
OrderTexts ==
  { Undefined, <<>>, <<"s", "t", "a", "t", "u", "s">>, <<"A", "_", "b">>,
    <<"x", ";", "y">>, <<"i", "d", "1">> }

\* req.query: status and user_id are filterParams, source is a column that is not
Queries ==
  [ status    : {Absent, Empty, 1, 2},
    user_id   : {Absent, 1},
    source    : {Absent, 1},
    search    : {Absent, Empty, 7},
    order_by  : OrderTexts,
    order_dir : {"-", "asc"},
    limit     : LimitTexts,
    offset    : OffsetTexts ]

\* row counts on both sides of the default and of the largest limit
StoredCounts == {0, 1, DefaultLimit + 1, MaxLimit + 1}

\* a condition whose value is written into the statement text
CondInline(fp, idx, v) == [col |-> fp, ph |-> 0, lit |-> v]

\* ` AND "${fp}" = $${idx++}`: the text names the column and the placeholder only
Cond(fp, idx, v) == [col |-> fp, ph |-> idx, lit |-> Absent]

\* the filterParams names the query string carries, in filterParams order
Present(cfg, q) == SelectSeq(cfg.filterParams, LAMBDA fp : q[fp] # Absent)

\* if (req.query.search): only the setup variant has this test
Searches(cfg, q) == cfg.variant = "setup" /\ q.search # Absent /\ q.search # Empty

\* `%${req.query.search}%`
Pattern(v) == 1000 + v

\* [a-z] under the i flag
Letters ==
  { "a", "b", "c", "d", "e", "f", "g", "h", "i", "j", "k", "l", "m",
    "n", "o", "p", "q", "r", "s", "t", "u", "v", "w", "x", "y", "z",
    "A", "B", "C", "D", "E", "F", "G", "H", "I", "J", "K", "L", "M",
    "N", "O", "P", "Q", "R", "S", "T", "U", "V", "W", "X", "Y", "Z" }

\* a test that lets every non-empty text through
OrderColAny(c) == c # <<>>

\* /^[a-z_]+$/i.test(orderCol): one character or more, each a letter or an underscore
OrderColOk(c) == c # <<>> /\ \A i \in DOMAIN c : c[i] \in Letters \cup {"_"}

\* the order column without its default
OrderColAsGiven(q) == q.order_by

\* the columns of the listed tables that GET / is asked to sort by
SortColumns == { CreatedAt, <<"s", "t", "a", "t", "u", "s">> }

\* req.query.order_by || 'created_at': undefined and '' are falsy
OrderCol(q) == IF q.order_by \in {Undefined, <<>>} THEN CreatedAt ELSE q.order_by

\* req.query.order_dir === 'asc' ? 'ASC' : 'DESC'
OrderDir(q) == IF q.order_dir = "asc" THEN "ASC" ELSE "DESC"

\* the statement text: the conditions, the search condition's placeholder (0: none),
\* ORDER BY, LIMIT and OFFSET
ListSql(cfg, q) ==
  LET fps      == Present(cfg, q)
      orderCol == OrderCol(q)
      orderDir == OrderDir(q) IN
  [ table    |-> cfg.table,
    conds    |-> [i \in 1..Len(fps) |-> Cond(fps[i], i, q[fps[i]])],
    search   |-> IF Searches(cfg, q) THEN Len(fps) + 1 ELSE 0,
    orderCol |-> IF OrderColOk(orderCol) THEN orderCol ELSE CreatedAt,
    orderDir |-> IF OrderColOk(orderCol) THEN orderDir ELSE "DESC",
    limit    |-> LimitOf(q),
    offset   |-> OffsetOf(q) ]

\* params: one value per condition, then the search pattern
ListParams(cfg, q) ==
  LET fps == Present(cfg, q) IN
  [i \in 1..Len(fps) |-> q[fps[i]]]
    \o (IF Searches(cfg, q) THEN <<Pattern(q.search)>> ELSE <<>>)

NoQuery ==
  [ status |-> Absent, user_id |-> Absent, source |-> Absent, search |-> Absent,
    order_by |-> Undefined, order_dir |-> "-", limit |-> Undefined, offset |-> Undefined ]
NoSql == [ table |-> "-", conds |-> <<>>, search |-> 0, orderCol |-> <<>>, orderDir |-> "-",
           limit |-> 0, offset |-> 0 ]
NoListResp == [ status |-> 0, rows |-> 0, shape |-> "-" ]

\* GET /: the handler builds the statement and awaits query(sql, params)
ListStart ==
  /\ lpc = "received"
  /\ lsql' = ListSql(lcfg, lreq)
  /\ lparams' = ListParams(lcfg, lreq)
  /\ lpc' = "query"
  /\ UNCHANGED <<lcfg, lstored, lreq, lresp>>
  /\ UNCHANGED notList

\* how many rows LIMIT and OFFSET let through; PostgreSQL rejects a negative LIMIT or OFFSET
\* and an ORDER BY that names no column of the table
RowsReturned(sql, stored) == Min2(sql.limit, Max2(stored - sql.offset, 0))

\* GET /: the statement runs; res.json(rows), or res.json({ data: rows, count }), or the
\* catch block's 500
ListRun ==
  /\ lpc = "query"
  /\ lresp' = IF lsql.limit < 0 \/ lsql.offset < 0 \/ lsql.orderCol \notin SortColumns
                THEN [status |-> 500, rows |-> 0, shape |-> "error"]
                ELSE [status |-> 200, rows |-> RowsReturned(lsql, lstored),
                      shape |-> IF lcfg.variant = "setup" THEN "data" ELSE "root"]
  /\ lpc' = "answered"
  /\ UNCHANGED <<lcfg, lstored, lreq, lsql, lparams>>
  /\ UNCHANGED notList

(***************************************************************************)
(* The client: ibmDb.from(table), the chain methods of IBMQueryBuilder and *)
(* its terminal calls.  A value given to a filter is a number, Null or     *)
(* Empty; what the builder writes into a URL is a text.                    *)
(***************************************************************************)
MaxFilters == 2
MaxCalls == 2

\* ROUTE_MAP, the entries the model keeps
ROUTE_MAP ==
  [ leads |->
      [ basePath |-> "/api/v1/leads", dataKey |-> "root",
        filterParams |-> <<"status", "source">>,
        supportsGetById |-> TRUE, supportsDelete |-> TRUE ],
    clients |->
      [ basePath |-> "/api/v1/clients", dataKey |-> "root",
        filterParams |-> <<"status", "user_id">>,
        supportsGetById |-> TRUE, supportsDelete |-> FALSE ],
    notifications |->
      [ basePath |-> "/api/v1/notifications", dataKey |-> "root",
        filterParams |-> <<"success", "limit">>,
        supportsGetById |-> FALSE, supportsDelete |-> FALSE ],
    audit_logs |->
      [ basePath |-> "/api/v1/audit-logs", dataKey |-> "data",
        filterParams |-> <<"method", "path", "actor", "actor_type", "status_min",
                           "status_max", "since", "until", "limit", "offset">>,
        supportsGetById |-> FALSE, supportsDelete |-> FALSE ] ]

\* the table names a caller passes to from(): the mapped ones, one that has no entry,
\* and one that has no entry but names a member every JavaScript object inherits
Tables == DOMAIN ROUTE_MAP \cup {"email_campaigns", "constructor"}

ObjectPrototype == {"constructor"}

\* null, as a route
NullRoute ==
  [ basePath |-> "null", dataKey |-> "null", filterParams |-> <<>>,
    supportsGetById |-> FALSE, supportsDelete |-> FALSE ]

\* what the builder reads from an inherited member: every property of a descriptor is
\* undefined on it, so the flags are falsy and the path prints as "undefined"
InheritedMember ==
  [ basePath |-> "undefined", dataKey |-> "undefined", filterParams |-> <<>>,
    supportsGetById |-> FALSE, supportsDelete |-> FALSE ]

\* ROUTE_MAP[table] ?? null
getRouteConfig(t) ==
  IF t \in DOMAIN ROUTE_MAP THEN ROUTE_MAP[t]
  ELSE IF t \in ObjectPrototype THEN InheritedMember
  ELSE NullRoute

FilterTypes   == {"eq", "neq"}
FilterColumns == {"id", "status"}
FilterValues  == {Null, Empty, 7}
LimitCounts   == {0, 10}
Sessions      == {"none", "token", "throws"}

\* the argument of insert, upsert and update: a record (one digit) or an array of
\* records, written as the number whose decimal digits are its records in order: 21 is
\* [2, 1] and 123 is [1, 2, 3]
Payloads == {1, 21, 123}

\* Array.isArray(data)
IsArray(d) == d >= 10

\* data.length
RECURSIVE ArrayLength(_)
ArrayLength(d) == IF d < 10 THEN 1 ELSE 1 + ArrayLength(d \div 10)

\* data[0]
RECURSIVE ElementZero(_)
ElementZero(d) == IF d < 10 THEN d ELSE ElementZero(d \div 10)

\* an insert that posts its argument as it is
InsertWhole(d) == d

\* const body = Array.isArray(this.state.data) ? this.state.data[0] : this.state.data
InsertBody(d) == IF IsArray(d) THEN ElementZero(d) ELSE d

\* String(value)
RECURSIVE DecimalText(_)
DecimalText(n) ==
  LET d == <<"0", "1", "2", "3", "4", "5", "6", "7", "8", "9">>[(n % 10) + 1]
  IN  IF n < 10 THEN <<d>> ELSE Append(DecimalText(n \div 10), d)

ToText(v) ==
  IF v = Null THEN <<"n", "u", "l", "l">>
  ELSE IF v = Empty THEN <<>>
  ELSE DecimalText(v)

\* ibmDb.from(table)
From(t) ==
  [ table |-> t, route |-> getRouteConfig(t), operation |-> "select",
    data |-> Absent, filters |-> <<>>, limitCount |-> Absent ]

NoState ==
  [ table |-> "-", route |-> NullRoute, operation |-> "-",
    data |-> Absent, filters |-> <<>>, limitCount |-> Absent ]

\* a settled promise: fulfilled with the pair { data, error } or rejected.  data is Null
\* or the number of rows in the array (of `then`) or FirstRow for the row itself (of
\* single and maybeSingle); error
\* is "-" for null
NoResult == [ settled |-> "-", data |-> Null, error |-> "-" ]

Pair(d, e) == [ settled |-> "fulfilled", data |-> d, error |-> e ]

Rejected(e) == [ settled |-> "rejected", data |-> Null, error |-> e ]

\* a promise that never settles
Pending(e) == [ settled |-> "pending", data |-> Null, error |-> e ]

\* what the caller of a terminal sees when execute() rejects: single() and
\* maybeSingle() are async functions and reject with it; `then` hands only onfulfilled
\* to the promise of execute(), so an await on the builder is never resumed
Thrown(term, e) == IF term = "then" THEN Pending(e) ELSE Rejected(e)

\* a request passed to fetch; id is the text after the base path, <<>> when there is none
Request(m, route, id, query, body) ==
  [ method |-> m, path |-> route.basePath, id |-> id, query |-> query,
    body |-> body, bearer |-> session = "token", item |-> FALSE ]

\* a request to `${baseUrl}${route.basePath}/${id}`
Item(req) == [req EXCEPT !.item = TRUE]

Select ==
  /\ cpc = "chain"
  /\ state' = [state EXCEPT !.operation = "select"]
  /\ UNCHANGED <<terminal, cpc, session, http, result, calls, reply>>
  /\ UNCHANGED notClient

\* insert(data), and upsert(data), which falls back to it
Insert(d) ==
  /\ cpc = "chain"
  /\ state' = [state EXCEPT !.operation = "insert", !.data = d]
  /\ UNCHANGED <<terminal, cpc, session, http, result, calls, reply>>
  /\ UNCHANGED notClient

Update(d) ==
  /\ cpc = "chain"
  /\ state' = [state EXCEPT !.operation = "update", !.data = d]
  /\ UNCHANGED <<terminal, cpc, session, http, result, calls, reply>>
  /\ UNCHANGED notClient

Delete ==
  /\ cpc = "chain"
  /\ state' = [state EXCEPT !.operation = "delete"]
  /\ UNCHANGED <<terminal, cpc, session, http, result, calls, reply>>
  /\ UNCHANGED notClient

\* eq(column, value), neq(column, value): addFilter
AddFilter(type, column, value) ==
  /\ cpc = "chain"
  /\ Len(state.filters) < MaxFilters
  /\ state' = [state EXCEPT !.filters =
                 Append(@, [type |-> type, column |-> column, value |-> value])]
  /\ UNCHANGED <<terminal, cpc, session, http, result, calls, reply>>
  /\ UNCHANGED notClient

Limit(n) ==
  /\ cpc = "chain"
  /\ state' = [state EXCEPT !.limitCount = n]
  /\ UNCHANGED <<terminal, cpc, session, http, result, calls, reply>>
  /\ UNCHANGED notClient

\* getIdFilter: the value of the first eq filter on id, as a text, or null
getIdFilter(st) ==
  LET hits == { i \in DOMAIN st.filters :
                  st.filters[i].column = "id" /\ st.filters[i].type = "eq" }
  IN  IF hits = {} THEN [ null |-> TRUE, text |-> <<>> ]
      ELSE [ null |-> FALSE, text |-> ToText(st.filters[Min(hits)].value) ]

\* a string is truthy unless it is empty; null is not
Truthy(id) == ~id.null /\ id.text # <<>>

\* URLSearchParams.set
SetParam(params, name, text) ==
  IF \E i \in DOMAIN params : params[i][1] = name
  THEN [ i \in DOMAIN params |->
           IF params[i][1] = name THEN <<name, text>> ELSE params[i] ]
  ELSE Append(params, <<name, text>>)

\* a builder that lets every column and the limit through
AllowedAll(route) == FilterColumns \cup {"limit"}

\* new Set(route.filterParams ?? [])
Allowed(route) == { route.filterParams[i] : i \in DOMAIN route.filterParams }

RECURSIVE FilterParamsOf(_, _, _)
FilterParamsOf(fs, allowed, params) ==
  IF fs = <<>> THEN params
  ELSE LET f == Head(fs)
       IN  FilterParamsOf(Tail(fs), allowed,
             IF f.type = "eq" /\ f.column \in allowed /\ f.value # Null
             THEN SetParam(params, f.column, ToText(f.value))
             ELSE params)

buildQueryParams(st) ==
  LET allowed == Allowed(st.route)
      params  == FilterParamsOf(st.filters, allowed, <<>>)
  IN  IF st.limitCount \notin {Absent, 0} /\ "limit" \in allowed
      THEN SetParam(params, "limit", ToText(st.limitCount))
      ELSE params

\* rows[0]: the first row itself, as the data of a pair
FirstRow == 100

\* a terminal that hands the pair of execute() on as it is
WrapNothing(term, pair) == pair

\* single() and maybeSingle() rewrite the pair of execute(); `then` passes it on
Wrap(term, pair) ==
  IF pair.settled = "rejected" THEN pair
  ELSE IF term = "single"
       THEN IF pair.data \in {Null, 0} THEN Pair(Null, "No rows returned")
            ELSE Pair(FirstRow, "-")
  ELSE IF term = "maybeSingle"
       THEN Pair(IF pair.data \in {Null, 0} THEN Null ELSE FirstRow, pair.error)
  ELSE pair

\* the switch of execute(): the request it passes to fetch, or the pair it returns
\* without one
CheckDeleteFirst(st) == ~st.route.supportsDelete

\* a select that asks for the single resource whenever it has an id
ByIdAlways(st, id) == Truthy(id)

\* if (id && route.supportsGetById)
ById(st, id) == Truthy(id) /\ st.route.supportsGetById

Dispatch(st) ==
  LET id == getIdFilter(st)
      no == [ fetch |-> FALSE, pair |-> NoResult,
              req |-> Request("-", st.route, <<>>, <<>>, Absent) ]
  IN  CASE st.operation = "select" ->
             [ fetch |-> TRUE, pair |-> NoResult,
               req |-> IF ById(st, id)
                       THEN Item(Request("GET", st.route, id.text, <<>>, Absent))
                       ELSE Request("GET", st.route, <<>>, buildQueryParams(st), Absent) ]
        [] st.operation = "insert" ->
             [ fetch |-> TRUE, pair |-> NoResult,
               req |-> Request("POST", st.route, <<>>, <<>>, InsertBody(st.data)) ]
        [] st.operation = "update" ->
             IF ~Truthy(id)
             THEN [ no EXCEPT !.pair = Pair(Null, "update requires .eq(id)") ]
             ELSE [ fetch |-> TRUE, pair |-> NoResult,
                    req |-> Item(Request("PUT", st.route, id.text, <<>>, st.data)) ]
        [] st.operation = "delete" ->
             IF CheckDeleteFirst(st)
             THEN [ no EXCEPT !.pair = Pair(Null, "DELETE not supported") ]
             ELSE IF ~Truthy(id)
             THEN [ no EXCEPT !.pair = Pair(Null, "delete requires .eq(id)") ]
             ELSE [ fetch |-> TRUE, pair |-> NoResult,
                    req |-> Item(Request("DELETE", st.route, id.text, <<>>, Absent)) ]

\* a fetch that answers from an earlier identical request
FetchCached(h, req) ==
  IF \E i \in DOMAIN h : h[i] = req THEN h ELSE Append(h, req)

\* await fetch(url, init): the request goes out
Fetch(h, req) == Append(h, req)

\* a terminal call, up to the first await of execute(): a null route returns at once
Execute(term) ==
  /\ cpc \in {"chain", "again"}
  /\ calls' = calls + 1
  /\ terminal' = term
  /\ IF state.route = NullRoute
     THEN /\ result' = Wrap(term, Pair(Null, "no REST route mapped"))
          /\ cpc' = "settled"
     ELSE /\ result' = result
          /\ cpc' = "headers"
  /\ UNCHANGED <<state, session, http, reply>>
  /\ UNCHANGED notClient

\* buildHeaders() settles; it is awaited before the try block, so that what getSession
\* throws rejects the promise of execute() (cpc "settled" then stands for the end of
\* execute()).  Then the switch runs up to its fetch.
BuildHeaders ==
  /\ cpc = "headers"
  /\ IF session = "throws"
     THEN /\ result' = Thrown(terminal, "storage")
          /\ cpc' = "settled"
          /\ http' = http
     ELSE LET out == Dispatch(state)
          IN  IF out.fetch
              THEN /\ http' = Fetch(http, out.req)
                   /\ cpc' = "fetch"
                   /\ result' = result
              ELSE /\ result' = Wrap(terminal, out.pair)
                   /\ cpc' = "settled"
                   /\ http' = http
  /\ UNCHANGED <<state, terminal, session, calls, reply>>
  /\ UNCHANGED notClient

\* the bodies of a response that is not ok: { error: { message } }, { error: 'text' },
\* { error: { code } } without a message, and a body that is no JSON or has no error
ErrorBodies == {"message", "string", "object", "none"}

\* the bodies of an ok response to a list request: the array of rows (res.json(rows)),
\* the object { data: rows, count }, and one object that is a row
ResponseShapes == {"root", "data", "object"}

\* a one-element array that holds the response object { data: rows, count }
Enveloped == 101

\* route.dataKey === 'root' ? (Array.isArray(json) ? json : [json])
\*                          : (json[route.dataKey] ?? [])
Decode(dataKey, shape, n) ==
  IF dataKey = "root"
  THEN IF shape = "root" THEN n ELSE IF shape = "object" THEN 1 ELSE Enveloped
  ELSE IF shape = dataKey THEN n ELSE 0

\* rows: the rows the server produced; data: the data of the pair execute() returns
NoReply == [ outcome |-> "-", rows |-> 0, body |-> "none", shape |-> "root", data |-> Null ]

\* handleError: body?.error?.message ?? body?.error ?? resp.statusText, as the message
\* of a new Error
handleError(b) ==
  IF b = "message" THEN "server message"
  ELSE IF b = "string" THEN "server error"
  ELSE IF b = "object" THEN "[object Object]"
  ELSE "status text"

\* the response: ok with a body of n rows in some shape, not ok with body b, or fetch
\* throws
Fetched(outcome, n, b, shape) ==
  /\ cpc = "fetch"
  /\ outcome = "ok" => b = "none"
  /\ outcome # "ok" => n = 0
  /\ outcome = "throws" => b = "none"
  /\ LET req  == http[Len(http)]
         list == req.method = "GET" /\ ~req.item
         rows == IF ~list THEN (IF req.method = "DELETE" /\ n = 0 THEN 0 ELSE 1)
                 ELSE IF shape = "object" THEN 1 ELSE n
         data == IF list THEN Decode(state.route.dataKey, shape, n) ELSE rows
     IN  /\ (outcome = "ok" /\ list) \/ shape = "root"
         /\ shape = "object" => n = 1
         /\ result' = Wrap(terminal,
                        IF outcome = "ok" THEN Pair(data, "-")
                        ELSE IF outcome = "not ok" THEN Pair(Null, handleError(b))
                        ELSE Pair(Null, "fetch failed"))
         /\ reply' = [ outcome |-> outcome, rows |-> IF outcome = "ok" THEN rows ELSE 0,
                       body |-> b, shape |-> shape,
                       data |-> IF outcome = "ok" THEN data ELSE Null ]
  /\ cpc' = "settled"
  /\ UNCHANGED <<state, terminal, session, http, calls>>
  /\ UNCHANGED notClient

\* the caller invokes a terminal on the same builder once more
Again ==
  /\ cpc = "settled" /\ calls < MaxCalls
  /\ cpc' = "again"
  /\ result' = NoResult
  /\ reply' = NoReply
  /\ UNCHANGED <<state, terminal, session, http, calls>>
  /\ UNCHANGED notClient

(***************************************************************************)
(* server.js: the application.  A request runs through the layers in the  *)
(* order in which server.js registered them, until one of them answers.   *)
(* A path is the sequence of its segments, a header value a text.         *)
(***************************************************************************)
Apps == {"setup", "standalone"}

\* the layers in registration order: the setup script's server.js answers /health before
\* it mounts the routers and ends with a catch-all; the standalone server.js registers
\* /health after the routers and leaves unmatched requests to Express
Stack(a) ==
  IF a = "setup" THEN <<"cors", "json", "apikey", "health", "api", "notfound">>
                 ELSE <<"cors", "json", "apikey", "api", "health", "notfound">>

ApiPrefix == <<"api", "v1">>
HealthPath == <<"health">>
Mounted == {"leads", "clients"}
Paths == { HealthPath, ApiPrefix, <<"api", "v1", "leads">>, <<"api", "v1", "clients">>,
           <<"api", "v1", "health">>, <<"api", "v2", "leads">>, <<"api">> }
KeyTexts == { Undefined, <<>>, <<"k">>, <<"x">> }
Secrets == { Undefined, <<>>, <<"k">> }
HttpRequests ==
  { r \in [ method : {"GET", "POST", "OPTIONS"}, path : Paths, key : KeyTexts,
            body : {"none", "json", "malformed"} ] :
      (r.body = "none") <=> (r.method # "POST") }

NoHttpRequest == [ method |-> "-", path |-> <<>>, key |-> Undefined, body |-> "none" ]
NoHttpResponse == [ status |-> 0, by |-> "-" ]

\* app.use(prefix, fn): the path is the prefix or continues it with further segments
Under(path, prefix) ==
  Len(path) >= Len(prefix) /\ SubSeq(path, 1, Len(prefix)) = prefix

\* a JavaScript string or undefined in a condition
TruthyText(t) == t # Undefined /\ t # <<>>

\* a check that compares the header also when no secret is configured
KeyDiffers(expected, apiKey) == apiKey # expected

\* if (expected && apiKey !== expected)
KeyRejected(expected, apiKey) == TruthyText(expected) /\ apiKey # expected

AtLayer(name) == layer \in DOMAIN Stack(app) /\ Stack(app)[layer] = name

PassOn(name) ==
  /\ layer' = layer + 1
  /\ entered' = entered \cup {name}
  /\ UNCHANGED <<app, secret, hreq, queries, hresp>>

Respond(name, status, q) ==
  /\ layer' = 0
  /\ entered' = entered \cup {name}
  /\ queries' = q
  /\ hresp' = [status |-> status, by |-> name]
  /\ UNCHANGED <<app, secret, hreq>>

\* a request arrives
Arrive(r) ==
  /\ layer = 0
  /\ hreq' = r /\ layer' = 1 /\ entered' = {} /\ queries' = 0
  /\ hresp' = NoHttpResponse
  /\ UNCHANGED <<app, secret>>
  /\ UNCHANGED notApp

\* app.use(cors(...)): a preflight request is answered here
Cors ==
  /\ AtLayer("cors")
  /\ IF hreq.method = "OPTIONS" THEN Respond("cors", 204, 0) ELSE PassOn("cors")
  /\ UNCHANGED notApp

\* app.use(express.json(...)): a body that is no JSON ends the request
Json ==
  /\ AtLayer("json")
  /\ IF hreq.body = "malformed" THEN Respond("json", 400, 0) ELSE PassOn("json")
  /\ UNCHANGED notApp

\* app.use('/api/v1', (req, res, next) => ...): the API key
ApiKey ==
  /\ AtLayer("apikey")
  /\ IF ~Under(hreq.path, ApiPrefix)
       THEN /\ layer' = layer + 1
            /\ UNCHANGED <<app, secret, hreq, entered, queries, hresp>>
     ELSE IF KeyRejected(secret, hreq.key)
       THEN Respond("apikey", 401, 0)
     ELSE PassOn("apikey")
  /\ UNCHANGED notApp

\* app.get('/health', ...)
Health ==
  /\ AtLayer("health")
  /\ IF hreq.method = "GET" /\ hreq.path = HealthPath
       THEN Respond("health", 200, 0)
       ELSE /\ layer' = layer + 1
            /\ UNCHANGED <<app, secret, hreq, entered, queries, hresp>>
  /\ UNCHANGED notApp

\* app.use('/api/v1', api): the router mounted for the path's table runs its handler,
\* which queries the database and answers with a status of its own
ApiRouter(status) ==
  /\ AtLayer("api")
  /\ IF Under(hreq.path, ApiPrefix) /\ Len(hreq.path) > Len(ApiPrefix)
        /\ hreq.path[Len(ApiPrefix) + 1] \in Mounted
       THEN Respond("api", status, 1)
       ELSE /\ status = 200
            /\ layer' = layer + 1
            /\ UNCHANGED <<app, secret, hreq, entered, queries, hresp>>
  /\ UNCHANGED notApp

\* the 404 catch-all
NotFound ==
  /\ AtLayer("notfound")
  /\ Respond("notfound", 404, 0)
  /\ UNCHANGED notApp

\* no request to the application
AppParked ==
  /\ app = "-" /\ secret = Undefined /\ hreq = NoHttpRequest /\ layer = 0
  /\ entered = {} /\ queries = 0 /\ hresp = NoHttpResponse

(***************************************************************************)
(* The builders as objects.  this.state of a builder is a record of values *)
(* and of one reference, to its filter array; a chain method called on a   *)
(* builder makes a new builder.                                            *)
(***************************************************************************)
MaxBuilders == 4

NoOrder == [ column |-> "-", ascending |-> TRUE ]

\* ibmDb.from(table): the state of the first builder, with its filters in array 1
FromState ==
  [ operation |-> "select", columns |-> "*", data |-> Absent, filters |-> 1,
    orderBy |-> NoOrder, limitCount |-> Absent, rangeFrom |-> Absent,
    rangeTo |-> Absent, parent |-> 0 ]

\* new IBMQueryBuilder({ ...this.state, <change> }): the new state holds the receiver's
\* values and the same reference to its filter array
Spread(bs, b) == [ bs[b] EXCEPT !.parent = b ]

\* an addFilter that pushes onto the receiver's array and hands the same array on
addFilterInPlace(bs, arrs, b, f) ==
  [ arrays   |-> [ arrs EXCEPT ![bs[b].filters] = Append(@, f) ],
    builders |-> Append(bs, Spread(bs, b)) ]

\* addFilter: filters: [...this.state.filters, { type, column, value }], a new array
addFilter(bs, arrs, b, f) ==
  [ arrays   |-> Append(arrs, Append(arrs[bs[b].filters], f)),
    builders |-> Append(bs, [ Spread(bs, b) EXCEPT !.filters = Len(arrs) + 1 ]) ]

\* what a builder's state reads as: its values and the contents of its filter array
View(bs, arrs, b) == [ bs[b] EXCEPT !.filters = arrs[bs[b].filters] ]

CanChain(b) == b \in DOMAIN builders /\ Len(builders) < MaxBuilders

\* select(), insert(data), update(data), delete() and upsert(data), which sets 'insert'
ChainOperation(b, method, d) ==
  /\ CanChain(b)
  /\ builders' = Append(builders,
       [ Spread(builders, b) EXCEPT
           !.operation = IF method = "upsert" THEN "insert" ELSE method,
           !.columns = IF method = "select" THEN "*" ELSE @,
           !.data = IF method \in {"insert", "update", "upsert"} THEN d ELSE @ ])
  /\ UNCHANGED arrays
  /\ UNCHANGED notHeap

\* eq, neq, gt, gte, lt, lte, like, ilike, in, is, not: addFilter(type, column, value)
ChainFilter(b, type, column, value) ==
  /\ CanChain(b)
  /\ LET new == addFilter(builders, arrays, b,
                          [type |-> type, column |-> column, value |-> value])
     IN  builders' = new.builders /\ arrays' = new.arrays
  /\ UNCHANGED notHeap

\* order(column, { ascending })
ChainOrder(b, column, ascending) ==
  /\ CanChain(b)
  /\ builders' = Append(builders,
       [ Spread(builders, b) EXCEPT
           !.orderBy = [column |-> column, ascending |-> ascending] ])
  /\ UNCHANGED arrays
  /\ UNCHANGED notHeap

\* limit(count)
ChainLimit(b, n) ==
  /\ CanChain(b)
  /\ builders' = Append(builders, [ Spread(builders, b) EXCEPT !.limitCount = n ])
  /\ UNCHANGED arrays
  /\ UNCHANGED notHeap

\* range(from, to)
ChainRange(b, from, to) ==
  /\ CanChain(b)
  /\ builders' = Append(builders,
       [ Spread(builders, b) EXCEPT !.rangeFrom = from, !.rangeTo = to ])
  /\ UNCHANGED arrays
  /\ UNCHANGED notHeap

\* no builder
HeapParked == builders = <<>> /\ arrays = <<>>

\* no client call
ClientParked ==
  /\ state = NoState /\ terminal = "-" /\ cpc = "-" /\ session = "none"
  /\ http = <<>> /\ result = NoResult /\ calls = 0 /\ reply = NoReply

\* no list request
ListParked ==
  /\ lcfg = [variant |-> "-", table |-> "-", filterParams |-> <<>>]
  /\ lstored = 0 /\ lreq = NoQuery /\ lpc = "-"
  /\ lsql = NoSql /\ lparams = <<>> /\ lresp = NoListResp

\* no request but GET /
ServerParked ==
  /\ router = [variant |-> "-", table |-> "-", requiredFields |-> <<>>, allowDelete |-> FALSE]
  /\ table = [i \in {} |-> NoRow]
  /\ now = 1
  /\ reqs = [s \in Slots |-> Idle]
  /\ served = 0
  /\ resp = NoResp
  /\ created = [i \in Ids |-> NoCreated]

Init ==
  /\ ListParked
  /\ ClientParked
  /\ AppParked
  /\ HeapParked
  /\ router \in Routers
  /\ table = [i \in {} |-> NoRow]
  /\ now = 1
  /\ reqs = [s \in Slots |-> Idle]
  /\ served = 0
  /\ resp = NoResp
  /\ created = [i \in Ids |-> NoCreated]

Next ==
  \/ \E m \in {"PATCH", "DELETE"}, id \in PathIds : CatchAll(m, id)
  \/ \E id \in PathIds : GetById(id)
  \/ \E s \in Slots, b \in Bodies : PostStart(s, b)
  \/ \E s \in Slots, dangling \in BOOLEAN : PostInsert(s, dangling)
  \/ \E s \in Slots : PostReread(s)
  \/ \E s \in Slots, m \in {"PUT", "PATCH"}, id \in PathIds, b \in Bodies : PutStart(s, m, id, b)
  \/ \E s \in Slots, dangling \in BOOLEAN : PutUpdate(s, dangling)
  \/ \E s \in Slots : PutReread(s)
  \/ \E s \in Slots, id \in PathIds : DeleteStart(s, id)
  \/ \E s \in Slots, referenced \in BOOLEAN : DeleteRun(s, referenced)
  \/ Tick

Spec == Init /\ [][Next]_vars

\* a row that was stored before the router was built
SeedRow(t, i) ==
  [ id |-> i, created_at |-> 1, updated_at |-> 1, user_id |-> 5,
    contact_entity_id |-> IF "contact_entity_id" \in TableCols(t) THEN 5 ELSE Null ]

\* the router over a table that already holds rows (one for every id, or one only),
\* with one writing request still to come
InitSeeded ==
  /\ ListParked
  /\ ClientParked
  /\ AppParked
  /\ HeapParked
  /\ router \in Routers
  /\ \E stored \in {Ids, {MaxId}} : table = [i \in stored |-> SeedRow(router.table, i)]
  /\ now = 1
  /\ reqs = [s \in Slots |-> Idle]
  /\ served = MaxWrites - 1
  /\ resp = NoResp
  /\ created = [i \in Ids |-> NoCreated]

SpecSeeded == InitSeeded /\ [][Next]_vars

\* PUT and DELETE requests, up to MaxWrites of them, MaxInFlight at a time, on a table
\* that holds one row
InitRace ==
  /\ ListParked
  /\ ClientParked
  /\ AppParked
  /\ HeapParked
  /\ router \in Routers
  /\ table = [i \in {MaxId} |-> SeedRow(router.table, i)]
  /\ now = 1
  /\ reqs = [s \in Slots |-> Idle]
  /\ served = 0
  /\ resp = NoResp
  /\ created = [i \in Ids |-> NoCreated]

NextRace ==
  \/ \E s \in Slots, id \in PathIds, b \in Bodies : PutStart(s, "PUT", id, b)
  \/ \E s \in Slots, dangling \in BOOLEAN : PutUpdate(s, dangling)
  \/ \E s \in Slots : PutReread(s)
  \/ \E s \in Slots, id \in PathIds : DeleteStart(s, id)
  \/ \E s \in Slots, referenced \in BOOLEAN : DeleteRun(s, referenced)
  \/ Tick

SpecRace == InitRace /\ [][NextRace]_vars

\* one list request against a table with any number of matching rows
InitList ==
  /\ ServerParked
  /\ ClientParked
  /\ AppParked
  /\ HeapParked
  /\ lcfg \in ListRouters
  /\ lstored \in StoredCounts
  /\ lreq \in Queries
  /\ lpc = "received"
  /\ lsql = NoSql /\ lparams = <<>> /\ lresp = NoListResp

NextList == ListStart \/ ListRun

SpecList == InitList /\ [][NextList]_vars

\* one chain of builder calls on ibmDb.from(table), ended by one terminal call
InitClient ==
  /\ ServerParked
  /\ ListParked
  /\ AppParked
  /\ HeapParked
  /\ \E t \in Tables : state = From(t)
  /\ terminal = "-"
  /\ cpc = "chain"
  /\ session \in Sessions
  /\ http = <<>>
  /\ result = NoResult
  /\ calls = 0
  /\ reply = NoReply

NextClient ==
  \/ Select
  \/ \E d \in Payloads : Insert(d)
  \/ \E d \in {p \in Payloads : ~IsArray(p)} : Update(d)
  \/ Delete
  \/ \E ty \in FilterTypes, c \in FilterColumns, v \in FilterValues : AddFilter(ty, c, v)
  \/ \E n \in LimitCounts : Limit(n)
  \/ \E term \in {"then", "single", "maybeSingle"} : Execute(term)
  \/ BuildHeaders
  \/ \E outcome \in {"ok", "not ok", "throws"}, n \in {0, 1, 2}, b \in ErrorBodies,
        shape \in ResponseShapes : Fetched(outcome, n, b, shape)
  \/ Again

SpecClient == InitClient /\ [][NextClient]_vars

\* requests to one application, one at a time, with or without a configured secret
InitApp ==
  /\ ServerParked
  /\ ListParked
  /\ ClientParked
  /\ app \in Apps
  /\ secret \in Secrets
  /\ hreq = NoHttpRequest /\ layer = 0 /\ entered = {} /\ queries = 0
  /\ hresp = NoHttpResponse
  /\ HeapParked

NextApp ==
  \/ \E r \in HttpRequests : Arrive(r)
  \/ Cors
  \/ Json
  \/ ApiKey
  \/ Health
  \/ \E status \in {200, 404, 500} : ApiRouter(status)
  \/ NotFound

SpecApp == InitApp /\ [][NextApp]_vars

\* the builders that chains starting at one from() create
InitHeap ==
  /\ ServerParked
  /\ ListParked
  /\ ClientParked
  /\ AppParked
  /\ builders = << FromState >>
  /\ arrays = << <<>> >>

NextHeap ==
  \/ \E b \in 1..MaxBuilders, method \in {"select", "insert", "update", "delete", "upsert"},
        d \in Payloads : ChainOperation(b, method, d)
  \/ \E b \in 1..MaxBuilders, ty \in FilterTypes, c \in FilterColumns :
        ChainFilter(b, ty, c, 7)
  \/ \E b \in 1..MaxBuilders, ascending \in BOOLEAN : ChainOrder(b, "status", ascending)
  \/ \E b \in 1..MaxBuilders, n \in LimitCounts : ChainLimit(b, n)
  \/ \E b \in 1..MaxBuilders : ChainRange(b, 0, 9)

SpecHeap == InitHeap /\ [][NextHeap]_vars

(***************************************************************************)
(* Properties of the router (checked under Spec).                          *)
(***************************************************************************)

\* C2: a POST / whose body lacks a required field, or carries null or '' for it, is
\* answered 400 with a message naming the first such field in requiredFields order, no
\* INSERT is issued for it and the table is left as it was.  Every POST is either
\* answered on arrival or becomes a request in flight: no POST in flight lacks a
\* required field, an answer on arrival is a 400 that names the first field its body
\* lacked, and a step that answers a request on arrival leaves the table alone.
C2_MissingRequiredField ==
  [][LET req      == router.requiredFields
         Lacks(b) == {i \in 1..Len(req) : b[req[i]] \in {Absent, Null, Empty}} IN
     /\ \A s \in Slots : reqs'[s].method = "POST" => Lacks(reqs'[s].rec) = {}
     /\ (served' # served /\ reqs' = reqs) =>
          /\ table' = table
          /\ resp'.method = "POST" =>
               /\ resp'.status = 400
               /\ Lacks(resp'.about) # {}
               /\ resp'.field = req[Min(Lacks(resp'.about))]]_vars

\* C2 happens: with two required fields and rows in the table, a POST that carried the
\* first required field but not the second has been answered 400 naming the second.
C2_Witness ==
  /\ Len(router.requiredFields) = 2
  /\ DOMAIN table # {}
  /\ resp.method = "POST" /\ resp.status = 400
  /\ resp.field = router.requiredFields[2]
  /\ resp.about[router.requiredFields[1]] = 5
  /\ resp.about[router.requiredFields[2]] = Empty

\* C3: an UPDATE issued by PUT /:id or PATCH /:id never has id or created_at in its SET
\* list, and it leaves the set of stored ids and every stored row's id and created_at
\* as they were, whatever the request body carried.
C3_IdAndCreatedAtImmutable ==
  [][\A s \in Slots :
       /\ reqs'[s].pc = "update" => {"id", "created_at"} \cap Keys(reqs'[s].rec) = {}
       /\ (\E dangling \in BOOLEAN : PutUpdate(s, dangling)) =>
            /\ DOMAIN table' = DOMAIN table
            /\ \A i \in DOMAIN table :
                 /\ table'[i].id = table[i].id
                 /\ table'[i].created_at = table[i].created_at]_vars

\* C3 happens: a PUT or PATCH whose body carried an id or a created_at has run its
\* UPDATE at a later instant than the create, and the stored row has the new updated_at
\* and its own id and created_at.
C3_Witness ==
  \E s \in Slots :
    /\ reqs[s].pc = "reread" /\ reqs[s].method \in {"PUT", "PATCH"} /\ reqs[s].sent
    /\ reqs[s].id \in DOMAIN table
    /\ table[reqs[s].id].id = reqs[s].id
    /\ table[reqs[s].id].updated_at = reqs[s].stamp
    /\ table[reqs[s].id].created_at \in Clock
    /\ table[reqs[s].id].created_at < reqs[s].stamp

\* C4: a router built with allowDelete = false registers no DELETE route: a DELETE /:id
\* is never handled by the factory (no request in flight is a DELETE, and every answer
\* to a DELETE is the 404 of the catch-all), and no step removes a row from the table.
C4_NoDeleteRoute ==
  [][~router.allowDelete =>
       /\ \A s \in Slots : reqs'[s].method # "DELETE"
       /\ resp'.method = "DELETE" => resp'.status = 404 /\ resp'.msg = "Route not found"
       /\ DOMAIN table \subseteq DOMAIN table'
       /\ \A id \in PathIds : ENABLED CatchAll("DELETE", id)]_vars

\* C4 happens: on a router without delete, a DELETE of a stored row was answered 404 and
\* the row is still stored.
C4_Witness ==
  /\ ~router.allowDelete
  /\ resp.method = "DELETE" /\ resp.status = 404
  /\ resp.id \in DOMAIN table

\* C6 as stated: GET, PUT, PATCH and DELETE on /:id, for whatever :id matches no row,
\* are answered 404, and PUT, PATCH and DELETE then issue no statement and leave the
\* table as it was.
C6_AsStated ==
  [][/\ \A id \in PathIds : (GetById(id) /\ id \notin DOMAIN table) => resp'.status = 404
     /\ \A m \in {"PATCH", "DELETE"}, id \in PathIds :
          (CatchAll(m, id) /\ id \notin DOMAIN table) => resp'.status = 404
     /\ ( /\ served' # served /\ reqs' = reqs
          /\ resp'.method \in {"PUT", "PATCH", "DELETE"}
          /\ resp'.id \notin DOMAIN table ) => resp'.status = 404 /\ table' = table
     /\ \A s \in Slots :
          (reqs[s].pc = "idle" /\ reqs'[s].pc \in {"update", "delete"}) =>
             reqs'[s].id \in DOMAIN table]_vars

\* C6, amended: the same for every :id that is a uuid.  A PUT, PATCH or DELETE is
\* admitted to its UPDATE or DELETE only when its existence check found the row; one
\* answered on arrival for a uuid that matches no row is answered 404 and leaves the
\* table as it was; so is a GET.
C6_NotFound ==
  [][/\ \A id \in Ids : (GetById(id) /\ id \notin DOMAIN table) => resp'.status = 404
     /\ \A m \in {"PATCH", "DELETE"}, id \in Ids :
          (CatchAll(m, id) /\ id \notin DOMAIN table) => resp'.status = 404
     /\ ( /\ served' # served /\ reqs' = reqs
          /\ resp'.method \in {"PUT", "PATCH", "DELETE"}
          /\ resp'.id \in Ids \ DOMAIN table ) => resp'.status = 404 /\ table' = table
     /\ \A s \in Slots :
          (reqs[s].pc = "idle" /\ reqs'[s].pc \in {"update", "delete"}) =>
             reqs'[s].id \in DOMAIN table]_vars

\* C6 happens: with a row stored, a PUT or PATCH for another uuid was answered 404.
C6_Witness ==
  /\ resp.method \in {"PUT", "PATCH"} /\ resp.status = 404 /\ resp.msg = "Not found"
  /\ resp.id \in Ids \ DOMAIN table
  /\ DOMAIN table # {}

\* C7 as stated: a PUT /:id or PATCH /:id on an existing row whose body has no fields,
\* or only id and/or created_at, is answered 400, issues no UPDATE and leaves the row,
\* updated_at included, as it was.
C7_EmptyUpdateRejected ==
  [][served' # served =>
       \A s \in Slots, m \in {"PUT", "PATCH"}, id \in Ids, b \in Bodies :
         ( /\ id \in DOMAIN table
           /\ Keys(b) \subseteq {"id", "created_at"}
           /\ PutStart(s, m, id, b) ) =>
              /\ resp'.method = m /\ resp'.status = 400
              /\ reqs' = reqs
              /\ table' = table]_vars

\* C8 as stated: every 201 of a create carries created_at = updated_at = the instant
\* the handler read from the clock.
C8_AsStated ==
  [][\A s \in Slots :
       PostReread(s) =>
         /\ resp'.status = 201
         /\ resp'.row.created_at = reqs[s].stamp
         /\ resp'.row.updated_at = reqs[s].stamp]_vars

\* C8, amended: the record a create builds carries created_at = updated_at = the instant
\* read from the server clock when the request is handled, whatever timestamps the body
\* supplied, and its 201 returns exactly these unless another request wrote the row
\* between the create's INSERT and its read-back.
C8_CreateStamps ==
  [][\A s \in Slots :
       /\ (reqs[s].pc = "idle" /\ reqs'[s].method = "POST") => reqs'[s].stamp = now
       /\ reqs'[s].method = "POST" =>
            /\ reqs'[s].stamp \in Clock
            /\ reqs'[s].rec.created_at = reqs'[s].stamp
            /\ reqs'[s].rec.updated_at = reqs'[s].stamp
       /\ (PostReread(s) /\ ~reqs[s].raced) =>
            /\ resp'.status = 201
            /\ resp'.row.created_at = reqs[s].stamp
            /\ resp'.row.updated_at = reqs[s].stamp]_vars

\* C8 happens: a create handled after the clock has advanced was answered 201 with a
\* row whose two timestamps are that instant.
C8_Witness ==
  /\ resp.method = "POST" /\ resp.status = 201
  /\ now > 1
  /\ resp.row.created_at = now /\ resp.row.updated_at = now

\* C9 as stated: once a create has answered 201 with row r, and as long as no request
\* writes the row afterwards, every GET /:id with r.id answers 200 with exactly r and
\* changes nothing.
C9_AsStated ==
  [][\A id \in Ids :
       (GetById(id) /\ created[id].row # NoRow) =>
          /\ created[id].row.id = id
          /\ resp'.status = 200 /\ resp'.row = created[id].row
          /\ table' = table]_vars

\* C9, amended: the same, provided the 201 took r from the read-back, that is, the row
\* was not deleted between the create's INSERT and its read-back.
C9_GetReturnsCreated ==
  [][\A id \in Ids :
       (GetById(id) /\ created[id].row # NoRow /\ created[id].clean) =>
          /\ created[id].row.id = id
          /\ resp'.status = 200 /\ resp'.row = created[id].row
          /\ table' = table]_vars

\* C9 happens: a GET has answered with the row a create returned.
C9_Witness ==
  /\ resp.method = "GET" /\ resp.status = 200
  /\ resp.id \in Ids
  /\ created[resp.id].clean
  /\ resp.row = created[resp.id].row

C14_ForeignKeyIsBadRequest ==
  [][\A s \in Slots :
       /\ \A dangling \in BOOLEAN :
            (/\ PostInsert(s, dangling)
             /\ InsertResult(router.table, table, reqs[s].rec, dangling).err = "23503") =>
              resp'.method = "POST" /\ resp'.status = 400 /\ table' = table
       /\ \A referenced \in BOOLEAN :
            (/\ DeleteRun(s, referenced)
             /\ DeleteOutcome(router.table, table, reqs[s].id, referenced).err = "23503") =>
              resp'.method = "DELETE" /\ resp'.status = 400 /\ table' = table]_vars

(***************************************************************************)
(* Properties of the router over a table that holds rows (checked under    *)
(* SpecSeeded).                                                            *)
(***************************************************************************)

\* C15 as stated: the DELETE of DELETE /:id on a stored row removes exactly that row,
\* leaves every other row as it was and is answered 200 with an acknowledgment that
\* names the deleted id.
C15_AsStated ==
  [][\A s \in Slots, referenced \in BOOLEAN :
       (DeleteRun(s, referenced) /\ reqs[s].id \in DOMAIN table) =>
          /\ DOMAIN table' = DOMAIN table \ {reqs[s].id}
          /\ \A i \in DOMAIN table' : table'[i] = table[i]
          /\ resp'.status = 200 /\ resp'.ack = reqs[s].id]_vars

\* C15, amended: unless the database refuses the DELETE because other records reference
\* the row (then the table stays as it was and the answer is an error), the DELETE removes
\* exactly that row, leaves every other row as it was and is answered 200; the
\* acknowledgment names the deleted id in the setup variant and no id in the other.
\* DELETE /:id for an id that is not stored is answered 404 and removes nothing, and so
\* is GET /:id.
C15_DeleteRemovesTheRow ==
  [][/\ \A s \in Slots, referenced \in BOOLEAN :
          (DeleteRun(s, referenced) /\ reqs[s].id \in DOMAIN table) =>
             IF referenced /\ router.table \in ReferencedTables
               THEN /\ table' = table
                    /\ resp'.status \in {400, 500} /\ resp'.ack = NoId
               ELSE /\ DOMAIN table' = DOMAIN table \ {reqs[s].id}
                    /\ \A i \in DOMAIN table' : table'[i] = table[i]
                    /\ resp'.method = "DELETE" /\ resp'.status = 200
                    /\ resp'.id = reqs[s].id
                    /\ resp'.ack = (IF router.variant = "setup" THEN reqs[s].id ELSE NoId)
     /\ ( /\ served' # served /\ reqs' = reqs /\ router.allowDelete
          /\ resp'.method = "DELETE" /\ resp'.id \in Ids \ DOMAIN table ) =>
            resp'.status = 404 /\ table' = table
     /\ \A id \in Ids \ DOMAIN table : GetById(id) => resp'.status = 404]_vars

\* C15 happens: of two stored rows one was deleted and the DELETE answered 200; the other
\* row is stored as it was.
C15_Witness ==
  /\ router.allowDelete
  /\ resp.method = "DELETE" /\ resp.status = 200
  /\ resp.id \in Ids \ DOMAIN table
  /\ \E i \in DOMAIN table : i # resp.id /\ table[i] = SeedRow(router.table, i)

\* C16 as stated: PATCH /:id is answered as PUT /:id is, for every table, id and body:
\* a PATCH never ends in the catch-all while a PUT is handled, and the two handlers give
\* the same status or go on with the same update object.
C16_AsStated ==
  [][/\ \A id \in PathIds :
          CatchAll("PATCH", id) =>
            \A b \in Bodies : PutArrival(table, now, id, b).status = resp'.status
     /\ \A id \in PathIds, b \in Bodies :
          PatchArrival(table, now, id, b) = PutArrival(table, now, id, b)]_vars

\* C16, amended: a router of the setup variant registers PATCH /:id, and its handler
\* answers with the same status, or goes on with the same update object, as that of
\* PUT /:id for every stored table, id and body; a router of the other variant registers
\* PUT /:id only, and PATCH /:id is answered 404 without a row.
C16_PatchAsPut ==
  /\ router.variant = "setup" =>
       /\ Registered(router, "PUT") /\ Registered(router, "PATCH")
       /\ \A id \in PathIds, b \in Bodies :
            PatchArrival(table, now, id, b) = PutArrival(table, now, id, b)
  /\ router.variant = "docs" =>
       /\ Registered(router, "PUT") /\ ~Registered(router, "PATCH")
       /\ resp.method = "PATCH" => resp.status = 404 /\ resp.row = NoRow
  /\ \A s \in Slots : reqs[s].method = "PATCH" => router.variant = "setup"

\* C16 happens: in the setup variant a PATCH of a stored row was answered 200 with the
\* row as it is stored now, updated after it was created.
C16_Witness ==
  /\ router.variant = "setup"
  /\ resp.method = "PATCH" /\ resp.status = 200
  /\ resp.id \in DOMAIN table /\ resp.row = table[resp.id]
  /\ resp.row.updated_at > resp.row.created_at

\* C27: in every interleaving of a PUT /:id with concurrent DELETE and PUT requests on
\* the same row, a PUT that is answered 200 is answered with the row of that id; it is
\* never answered 200 without a row.
C27_PutNeverAnswersWithoutRow ==
  resp.method = "PUT" /\ resp.status = 200 =>
    resp.row # NoRow /\ resp.row.id = resp.id

(***************************************************************************)
(* Properties of GET / (checked under SpecList).                           *)
(***************************************************************************)

\* C5 as stated: once the statement is built, (1) it is the statement of every request
\* that differs from this one only in the values of its filter parameters; (2) it has
\* one condition per filterParams name the query string carries, in filterParams order,
\* with placeholders $1..$n and no value in the text, and exactly these n values are
\* bound, in that order; (3) nothing else in the query string adds a condition.
C5_AsStated ==
  lpc \in {"query", "answered"} =>
    LET fps == lcfg.filterParams
        on  == {i \in 1..Len(fps) : lreq[fps[i]] # Absent}
        n   == Cardinality(on) IN
    /\ \A v1 \in {Empty, 1, 2}, v2 \in {Empty, 1, 2} :
         ListSql(lcfg, [lreq EXCEPT
                          !.status  = IF lreq.status = Absent THEN Absent ELSE v1,
                          !.user_id = IF lreq.user_id = Absent THEN Absent ELSE v2]) = lsql
    /\ Len(lsql.conds) = n
    /\ \A k \in 1..n :
         /\ lsql.conds[k].ph = k /\ lsql.conds[k].lit = Absent
         /\ \E i \in on : /\ fps[i] = lsql.conds[k].col
                          /\ Cardinality({j \in on : j <= i}) = k
         /\ lparams[k] = lreq[lsql.conds[k].col]
    /\ Len(lparams) = n
    /\ lsql.search = 0

\* C5, amended: (1) and (2) as stated, except that the bound values are the n filter
\* values followed, in the variant with search support, by the pattern of a non-empty
\* search term, which adds the one further condition "table"::text ILIKE $n+1; the text
\* does not depend on the term either; (3) a name that is neither in filterParams nor
\* search (here: source) changes neither the statement nor the bound values.
C5_FiltersAreBound ==
  lpc \in {"query", "answered"} =>
    LET fps  == lcfg.filterParams
        on   == {i \in 1..Len(fps) : lreq[fps[i]] # Absent}
        n    == Cardinality(on)
        term == lcfg.variant = "setup" /\ lreq.search \notin {Absent, Empty} IN
    /\ \A v1 \in {Empty, 1, 2}, v2 \in {Empty, 1, 2}, v3 \in {7, 8} :
         ListSql(lcfg, [lreq EXCEPT
                          !.status  = IF lreq.status = Absent THEN Absent ELSE v1,
                          !.user_id = IF lreq.user_id = Absent THEN Absent ELSE v2,
                          !.search  = IF lreq.search \in {Absent, Empty} THEN @ ELSE v3]) = lsql
    /\ Len(lsql.conds) = n
    /\ \A k \in 1..n :
         /\ lsql.conds[k].ph = k /\ lsql.conds[k].lit = Absent
         /\ \E i \in on : /\ fps[i] = lsql.conds[k].col
                          /\ Cardinality({j \in on : j <= i}) = k
         /\ lparams[k] = lreq[lsql.conds[k].col]
    /\ lsql.search = (IF term THEN n + 1 ELSE 0)
    /\ Len(lparams) = (IF term THEN n + 1 ELSE n)
    /\ term => lparams[n + 1] = 1000 + lreq.search
    /\ \A v \in {Absent, 1, 2} :
         /\ ListSql(lcfg, [lreq EXCEPT !.source = v]) = lsql
         /\ ListParams(lcfg, [lreq EXCEPT !.source = v]) = lparams

\* C5 happens: a request with both filters, a column that is no filter and a search term
\* was answered by the variant with search support, with three values bound.
C5_Witness ==
  /\ lpc = "answered" /\ lresp.status = 200
  /\ lcfg.variant = "setup"
  /\ lreq.status = 2 /\ lreq.user_id = 1 /\ lreq.source = 1 /\ lreq.search = 7
  /\ lparams = <<2, 1, 1007>>

\* C10 as stated: a list request returns at most min(requested limit, 500) rows, at most
\* 100 when it names no limit, and an empty result is an empty array with status 200.
C10_AtMostLimitRows ==
  lpc = "answered" =>
    LET asked == ParseInt(lreq.limit) IN
    /\ (~asked.nan /\ asked.val >= 0) => lresp.rows <= Min2(asked.val, 500)
    /\ lreq.limit = Undefined => lresp.rows <= 100
    /\ (lstored = 0 /\ lresp.status = 200) => lresp.rows = 0

\* C11: a list request whose order_by holds a character that is neither a letter nor an
\* underscore is ordered by created_at DESC whatever order_dir says; the order_by text is
\* not in the statement, and the request is answered 200 unless its limit or offset
\* makes it fail.
C11_BadOrderByFallsBack ==
  (/\ lpc \in {"query", "answered"}
   /\ lreq.order_by # Undefined
   /\ \E i \in DOMAIN lreq.order_by : lreq.order_by[i] \notin Letters \cup {"_"}) =>
    /\ lsql.orderCol = CreatedAt /\ lsql.orderDir = "DESC"
    /\ lsql.orderCol # lreq.order_by
    /\ lpc = "answered" =>
         (lresp.status = 200 \/ lsql.limit < 0 \/ lsql.offset < 0)

\* C11 happens: a request with order_by=x;y and order_dir=asc was answered 200 from a
\* statement ordered by created_at DESC.
C11_Witness ==
  /\ lpc = "answered" /\ lresp.status = 200
  /\ lreq.order_by = <<"x", ";", "y">> /\ lreq.order_dir = "asc"
  /\ lsql.orderCol = CreatedAt /\ lsql.orderDir = "DESC"

\* C12 as stated: a list request without order_by is ordered by created_at DESC for every
\* value of order_dir.
C12_AsStated ==
  (lpc \in {"query", "answered"} /\ lreq.order_by = Undefined) =>
    lsql.orderCol = CreatedAt /\ lsql.orderDir = "DESC"

\* C12, amended: a list request without order_by (or with an empty one) is ordered by
\* created_at, ascending exactly when order_dir is asc and descending otherwise.
C12_DefaultOrder ==
  (lpc \in {"query", "answered"} /\ lreq.order_by \in {Undefined, <<>>}) =>
    /\ lsql.orderCol = CreatedAt
    /\ lsql.orderDir = "ASC" <=> lreq.order_dir = "asc"
    /\ lsql.orderDir \in {"ASC", "DESC"}

\* C12 happens: a request with order_dir=asc and no order_by was answered 200 from a
\* statement ordered by created_at ASC.
C12_Witness ==
  /\ lpc = "answered" /\ lresp.status = 200
  /\ lreq.order_by = Undefined /\ lreq.order_dir = "asc"
  /\ lsql.orderCol = CreatedAt /\ lsql.orderDir = "ASC"

\* C28: the route map and the routers agree on filtering: for every name in the
\* filterParams of the route-map entry of the listed table that the query string
\* carries, the statement of GET / has a condition on that column, bound to the value
\* sent, so that every row returned has that value in the column.
C28_FiltersAgree ==
  lpc \in {"query", "answered"} /\ lcfg.table \in DOMAIN ROUTE_MAP =>
    \A i \in DOMAIN ROUTE_MAP[lcfg.table].filterParams :
      LET c == ROUTE_MAP[lcfg.table].filterParams[i] IN
      c \in DOMAIN lreq /\ lreq[c] # Absent =>
        \E k \in DOMAIN lsql.conds :
          lsql.conds[k].col = c /\ lparams[lsql.conds[k].ph] = lreq[c]

\* C29 as stated: whatever integers the limit and offset parameters hold, 0 and negative
\* values included, the LIMIT of the list statement is between 1 and 500 and its OFFSET
\* is at least 0, and a request whose order column exists is answered 200.
C29_PaginationInRange ==
  /\ lpc \in {"query", "answered"} =>
       lsql.limit \in 1..MaxLimit /\ lsql.offset >= 0
  /\ lpc = "answered" /\ lsql.orderCol \in SortColumns => lresp.status = 200

(***************************************************************************)
(* Properties of the client (checked under SpecClient).                    *)
(***************************************************************************)

\* C1: a terminal call on an update or delete that has no eq filter on id, on a delete
\* whose descriptor has supportsDelete = false, or on a table that has no entry in the
\* route map passes no request to fetch, and its promise is fulfilled with the pair
\* { data: null, error: <Error> }.
C1_FailFast ==
  LET noIdFilter == ~\E i \in DOMAIN state.filters :
                       state.filters[i].column = "id" /\ state.filters[i].type = "eq"
      refused == \/ state.operation \in {"update", "delete"} /\ noIdFilter
                 \/ state.operation = "delete" /\ ~state.route.supportsDelete
                 \/ state.table \notin DOMAIN ROUTE_MAP
  IN  terminal # "-" /\ refused =>
        /\ http = <<>>
        /\ cpc = "settled" =>
             result.settled = "fulfilled" /\ result.data = Null /\ result.error # "-"

\* the builder's table has an entry in the route map and the preconditions of its
\* operation hold: an update or delete has an id, a delete a route that supports it
Eligible ==
  /\ state.table \in DOMAIN ROUTE_MAP
  /\ state.operation \in {"update", "delete"} => Truthy(getIdFilter(state))
  /\ state.operation = "delete" => state.route.supportsDelete

\* the requests a builder has issued when each of its terminal calls issued one
OnePerCall ==
  /\ Len(http) = (IF cpc = "headers" THEN calls - 1 ELSE calls)
  /\ \A i \in DOMAIN http : http[i] = http[1]

ListRequests == { i \in DOMAIN http : http[i].method = "GET" /\ ~http[i].item }

\* the names in the filterParams of the builder's route descriptor
ListedParams == { state.route.filterParams[i] : i \in DOMAIN state.route.filterParams }

\* C19: in every request a select sends to the list route, each parameter of the query
\* string is named in the descriptor's filterParams: a parameter other than limit is
\* the value of an eq filter on that column and every eq filter on a listed column
\* with a value is sent, limit is sent only when 'limit' is listed and holds the
\* builder's limit; a filter on another column is left out and the select is sent
\* all the same, never refused.
C19_OnlyAllowedParams ==
  /\ \A i \in ListRequests :
       LET q == http[i].query
           names == { q[j][1] : j \in DOMAIN q } IN
       /\ names \subseteq ListedParams
       /\ \A j \in DOMAIN q :
            IF q[j][1] = "limit"
            THEN state.limitCount \notin {Absent, 0} /\ q[j][2] = ToText(state.limitCount)
            ELSE \E k \in DOMAIN state.filters :
                   /\ state.filters[k].type = "eq" /\ state.filters[k].column = q[j][1]
                   /\ state.filters[k].value # Null
                   /\ q[j][2] = ToText(state.filters[k].value)
       /\ \A k \in DOMAIN state.filters :
            /\ state.filters[k].type = "eq" /\ state.filters[k].value # Null
            /\ state.filters[k].column \in ListedParams
            => state.filters[k].column \in names
  /\ /\ state.operation = "select" /\ state.route # NullRoute /\ session # "throws"
     /\ cpc \in {"fetch", "settled", "again"}
     => Len(http) = calls

\* C19 happens: a select on notifications with an eq filter on status, which the
\* descriptor does not list, and a limit of 10 was sent with limit=10 alone, and it
\* was fulfilled without an error.
C19_Witness ==
  /\ state.table = "notifications" /\ state.operation = "select"
  /\ \E k \in DOMAIN state.filters :
       /\ state.filters[k].type = "eq" /\ state.filters[k].column = "status"
       /\ state.filters[k].value = 7
  /\ Len(http) = 1 /\ http[1].query = << <<"limit", <<"1", "0">> >> >>
  /\ cpc = "settled" /\ result.settled = "fulfilled" /\ result.error = "-"

\* the builder of from('leads').select().eq('status', v).limit(10); the number 7 stands
\* for the status value
LeadsWonChain ==
  /\ state.table = "leads" /\ state.operation = "select"
  /\ state.filters = << [type |-> "eq", column |-> "status", value |-> 7] >>
  /\ state.limitCount = 10

\* C20: awaiting from('leads').select().eq('status', v).limit(10) issues exactly one
\* request, GET <base>/api/v1/leads?status=v&limit=10, and when the response is ok the
\* promise is fulfilled with the rows and a null error.
C20_LeadsWonLimit10 ==
  LeadsWonChain /\ terminal = "then" /\ calls = 1 /\ session # "throws"
  /\ cpc \in {"fetch", "settled"} =>
    /\ Len(http) = 1
    /\ http[1].method = "GET" /\ http[1].path = "/api/v1/leads" /\ http[1].id = <<>>
    /\ http[1].query = << <<"status", <<"7">> >>, <<"limit", <<"1", "0">> >> >>
    /\ cpc = "settled" /\ result.error = "-" =>
         result.settled = "fulfilled" /\ result.data # Null

\* the builder is a select with an eq filter on id; IdValue is the value of the first
HasIdFilter ==
  /\ state.operation = "select"
  /\ \E k \in DOMAIN state.filters :
       state.filters[k].type = "eq" /\ state.filters[k].column = "id"

IdValue ==
  LET hits == { k \in DOMAIN state.filters :
                  state.filters[k].type = "eq" /\ state.filters[k].column = "id" }
  IN  state.filters[Min(hits)].value

\* C21 as stated: a select with an eq('id', v) filter on a descriptor with
\* supportsGetById sends GET <basePath>/<v>, never the list route, and an ok response
\* gives a data array of one element; without by-id support it sends the list route.
C21_AsStated ==
  HasIdFilter /\ state.table \in DOMAIN ROUTE_MAP =>
    \A i \in DOMAIN http :
      /\ http[i].method = "GET" /\ http[i].path = state.route.basePath
      /\ IF state.route.supportsGetById
         THEN http[i].item /\ http[i].id = ToText(IdValue) /\ http[i].query = <<>>
         ELSE ~http[i].item /\ http[i].id = <<>>

\* C21, amended: a select with an eq('id', v) filter whose v is not the empty string,
\* on a descriptor with supportsGetById, sends GET <basePath>/<String(v)> (also for
\* v = null, as /null), never the list route, and an ok response gives a data array of
\* one element; when v is the empty string, or the descriptor has no by-id support,
\* the list route is sent, with the parameters the descriptor lists.
C21_SelectById ==
  HasIdFilter /\ state.table \in DOMAIN ROUTE_MAP =>
    /\ \A i \in DOMAIN http :
         /\ http[i].method = "GET" /\ http[i].path = state.route.basePath
         /\ IF state.route.supportsGetById /\ IdValue # Empty
            THEN http[i].item /\ http[i].id = ToText(IdValue) /\ http[i].query = <<>>
            ELSE /\ ~http[i].item /\ http[i].id = <<>>
                 /\ \A j \in DOMAIN http[i].query : http[i].query[j][1] \in ListedParams
    /\ /\ state.route.supportsGetById /\ IdValue # Empty
       /\ terminal = "then" /\ cpc = "settled" /\ result.settled = "fulfilled"
       /\ result.error = "-"
       => result.data = 1

\* C21 happens: a select on leads with eq('id', 7) was sent as GET /api/v1/leads/7 and
\* fulfilled with one element.
C21_Witness ==
  /\ HasIdFilter /\ state.table = "leads" /\ IdValue = 7
  /\ Len(http) >= 1 /\ http[1].item /\ http[1].id = <<"7">> /\ http[1].method = "GET"
  /\ terminal = "then" /\ cpc = "settled" /\ result = Pair(1, "-")

\* C22: after a response that is not ok, every terminal call is fulfilled, not
\* rejected, with data null and an error that carries the message of the response
\* body ({ error: { message } } or { error: 'text' }), or the status text when the
\* body has no message.
C22_ServerMessageInError ==
  cpc = "settled" /\ reply.outcome = "not ok" =>
    /\ result.settled = "fulfilled" /\ result.data = Null
    /\ result.error = (IF reply.body = "message" THEN "server message"
                       ELSE IF reply.body = "string" THEN "server error"
                       ELSE "status text")

\* C23: no terminal call throws or rejects: when execute() has ended the promise is
\* fulfilled with a pair; after a failure (no route, no id filter, a response that is
\* not ok, fetch throwing, the session not readable) the pair is { data: null, error },
\* and the pair of a plain await has exactly one of data and error non-null.
C23_NeverRejects ==
  cpc = "settled" =>
    /\ result.settled = "fulfilled"
    /\ \/ state.route = NullRoute
       \/ state.operation \in {"update", "delete"} /\ ~Truthy(getIdFilter(state))
       \/ reply.outcome \in {"not ok", "throws"}
       \/ session = "throws"
       => result.data = Null /\ result.error # "-"
    /\ terminal = "then" => ((result.data = Null) <=> (result.error # "-"))

\* C24: after an ok response, single() gives { data: null, error: 'No rows returned' }
\* when the rows are none and otherwise the first row itself with a null error;
\* maybeSingle() gives the same first row when there is one and { data: null,
\* error: null } when the rows are none.
C24_SingleAndMaybeSingle ==
  cpc = "settled" /\ reply.outcome = "ok" =>
    /\ terminal = "single" =>
         result = (IF reply.data = 0 THEN Pair(Null, "No rows returned")
                   ELSE Pair(FirstRow, "-"))
    /\ terminal = "maybeSingle" =>
         result = (IF reply.data = 0 THEN Pair(Null, "-") ELSE Pair(FirstRow, "-"))

\* C24 happens: single() after a response of two rows gave the first row and no error.
C24_Witness ==
  /\ cpc = "settled" /\ terminal = "single"
  /\ reply.outcome = "ok" /\ reply.rows = 2 /\ reply.data = 2
  /\ result = Pair(FirstRow, "-")

\* C26: the data a plain await of a select on the list route gets after an ok response
\* is the array of the rows the server produced.
C26_DataIsTheRows ==
  /\ cpc = "settled" /\ terminal = "then" /\ state.operation = "select"
  /\ state.table \in DOMAIN ROUTE_MAP
  /\ reply.outcome = "ok" /\ ~http[Len(http)].item
  => result = Pair(reply.rows, "-")

\* a terminal was called on an insert (or upsert) of an array of two or more records
\* into a mapped table
ArrayInsert ==
  /\ terminal # "-" /\ state.table \in DOMAIN ROUTE_MAP
  /\ state.operation = "insert"
  /\ IsArray(state.data) /\ ArrayLength(state.data) >= 2

\* every request issued is a POST to the base path whose body is the one record r
PostsOnly(r) ==
  \A i \in DOMAIN http :
    http[i].method = "POST" /\ ~http[i].item /\ http[i].id = <<>> /\ http[i].body = r

KeyIsWrong ==
  /\ Under(hreq.path, ApiPrefix)
  /\ TruthyText(secret) /\ hreq.key # secret

Answered == layer = 0 /\ hresp # NoHttpResponse

C25_ReceiverUnchanged ==
  [][/\ Len(builders') = Len(builders) + 1
     /\ \A b \in DOMAIN builders :
          View(builders', arrays', b) = View(builders, arrays, b)
     /\ LET new == Len(builders')
            old == builders'[new].parent
            was == View(builders, arrays, old).filters
            is  == View(builders', arrays', new).filters
        IN  /\ old \in DOMAIN builders
            /\ is = was \/ (Len(is) = Len(was) + 1 /\ SubSeq(is, 1, Len(was)) = was)]_vars

\* C25 happens: two builders were chained from one builder without filters, one with
\* eq('status', 7) and one with neq('id', 7), and each reads its own filter only.
C25_Witness ==
  \E a, b \in DOMAIN builders :
    /\ a # b /\ builders[a].parent = builders[b].parent /\ builders[a].parent # 0
    /\ View(builders, arrays, builders[a].parent).filters = <<>>
    /\ View(builders, arrays, a).filters = << [type |-> "eq", column |-> "status", value |-> 7] >>
    /\ View(builders, arrays, b).filters = << [type |-> "neq", column |-> "id", value |-> 7] >>

====
